---- MODULE Spec2Model ----
(***************************************************************************)
(* QMicroz: the archive session of src/src/qmicroz.cpp as a state machine. *)
(*                                                                         *)
(* Strings (entry names, filesystem paths) are sequences of one-character  *)
(* strings, so that the separator tests, joins and prefixes of the code    *)
(* are computed and not assumed.  Byte arrays are sequences of numbers.    *)
(* The miniz container is the ordered list of the items it holds.          *)
(***************************************************************************)
EXTENDS Integers, Sequences, FiniteSets, TLC

VARIABLES
    m_archive,        \* the owned miniz handle, or nullptr
    m_zip_path,       \* path to the current zip file
    m_output_folder,  \* folder to place the extracted files
    m_zip_entries,    \* { entry name : index }
    allocated,        \* the mz_zip_archive objects made with new and not deleted
    fs,               \* the files the session opens as archives
    disk,             \* the files and folders that extraction has put on the disk
    op,               \* the last call made on the object and what it returned
    session           \* what the caller did in the last session opened for writing

vars ==
    <<m_archive, m_zip_path, m_output_folder, m_zip_entries, allocated, fs, disk, op,
      session>>

----------------------------------------------------------------------------
(* Bounds of the model *)

\* the number of items one writer takes before the model stops adding
MaxEntries == 2

\* the number of bytes of the byte arrays and files the probe is given
MaxBytes == 3

----------------------------------------------------------------------------
(* Strings *)

s_sep == "/"

EmptyStr == << >>

endsWith(str, ch) == Len(str) > 0 /\ str[Len(str)] = ch

startsWith(str, prefix) ==
    /\ Len(prefix) <= Len(str)
    /\ SubSeq(str, 1, Len(prefix)) = prefix

contains(str, ch) == \E i \in 1..Len(str) : str[i] = ch

\* QString::mid(pos): the string from position pos (0-based) to the end
mid(str, pos) == SubSeq(str, pos + 1, Len(str))

\* code units of the characters the model uses, for QString's operator<
CharCode(ch) ==
    CASE ch = "/"  -> 47
      [] ch = "?"  -> 63
      [] ch = "K"  -> 75
      [] ch = "P"  -> 80
      [] ch = "\\" -> 92
      [] ch = "a"  -> 97
      [] ch = "b"  -> 98
      [] ch = "c"  -> 99
      [] ch = "d"  -> 100
      [] ch = "e"  -> 101
      [] ch = "h"  -> 104
      [] ch = "i"  -> 105
      [] ch = "o"  -> 111
      [] ch = "p"  -> 112
      [] ch = "q"  -> 113
      [] ch = "r"  -> 114
      [] ch = "s"  -> 115
      [] ch = "t"  -> 116
      [] OTHER     -> 120

RECURSIVE StrLess(_, _)
\* QString operator<: lexicographic on code units
StrLess(x, y) ==
    IF Len(y) = 0 THEN FALSE
    ELSE IF Len(x) = 0 THEN TRUE
    ELSE IF x[1] # y[1] THEN CharCode(x[1]) < CharCode(y[1])
    ELSE StrLess(Tail(x), Tail(y))

RECURSIVE SortedKeys(_)
\* the keys of a QMap in iteration order
SortedKeys(keys) ==
    IF keys = {} THEN << >>
    ELSE LET least == CHOOSE k \in keys : \A o \in keys \ {k} : StrLess(k, o)
         IN  <<least>> \o SortedKeys(keys \ {least})

\* QFileInfo::fileName(): what follows the last separator
RECURSIVE fileName(_)
fileName(path) ==
    IF Len(path) = 0 THEN EmptyStr
    ELSE IF path[Len(path)] = s_sep THEN EmptyStr
    ELSE fileName(SubSeq(path, 1, Len(path) - 1)) \o <<path[Len(path)]>>

\* QFileInfo::absolutePath(): the path without its last component
RECURSIVE absolutePath(_)
absolutePath(path) ==
    IF Len(path) <= 1 THEN path
    ELSE IF path[Len(path)] = s_sep
         THEN SubSeq(path, 1, Len(path) - 1)
         ELSE LET parent == SubSeq(path, 1, Len(path) - 1)
              IN  IF Len(parent) = 1 /\ parent[1] = s_sep THEN parent
                  ELSE IF parent[Len(parent)] = s_sep
                       THEN SubSeq(parent, 1, Len(parent) - 1)
                       ELSE absolutePath(parent)

isFolderName(name) == endsWith(name, s_sep)

\* isFileName taking every name that does not end in the separator
isFileName_notFolder(name) == ~endsWith(name, s_sep)

isFileName(name) == Len(name) > 0 /\ ~endsWith(name, s_sep)

toFolderName(name) == IF endsWith(name, s_sep) THEN name ELSE name \o <<s_sep>>

isSep(ch) == ch = "/" \/ ch = "\\"

\* joinPath that joins the two as they are when both supply the separator
joinPath_keepBoth(abs_path, rel_path) ==
    LET s1Ends   == Len(abs_path) > 0 /\ isSep(abs_path[Len(abs_path)])
        s2Starts == Len(rel_path) > 0 /\ isSep(rel_path[1])
    IN  IF s1Ends \/ s2Starts
        THEN abs_path \o rel_path
        ELSE abs_path \o <<s_sep>> \o rel_path

joinPath(abs_path, rel_path) ==
    LET s1Ends   == Len(abs_path) > 0 /\ isSep(abs_path[Len(abs_path)])
        s2Starts == Len(rel_path) > 0 /\ isSep(rel_path[1])
    IN  IF s1Ends /\ s2Starts
        THEN SubSeq(abs_path, 1, Len(abs_path) - 1) \o rel_path
        ELSE IF s1Ends \/ s2Starts
             THEN abs_path \o rel_path
             ELSE abs_path \o <<s_sep>> \o rel_path

\* tools.cpp, the file qmztools.cpp took the place of: qmicroz.cpp includes
\* qmztools.h and calls the joinPath above
endsWithSlash(path) == endsWith(path, "/") \/ endsWith(path, "\\")

joinPath_tools(abs_path, rel_path) ==
    IF endsWithSlash(abs_path)
    THEN abs_path \o rel_path
    ELSE abs_path \o <<s_sep>> \o rel_path

----------------------------------------------------------------------------
(* The filesystem and the miniz primitives the session calls *)

ModeAuto  == 0
ModeRead  == 1
ModeWrite == 2

Modes == {ModeAuto, ModeRead, ModeWrite}

MZ_ZIP_MODE_INVALID == "MZ_ZIP_MODE_INVALID"
MZ_ZIP_MODE_READING == "MZ_ZIP_MODE_READING"
MZ_ZIP_MODE_WRITING == "MZ_ZIP_MODE_WRITING"

\* the magic the probe compares with
Magic == <<"P", "K">>

\* what a path names: nothing, a directory, or a file with its first
\* bytes, whether it ends in a readable central directory, and the items of it
AbsentFile   == [kind |-> "absent", head |-> EmptyStr, zip |-> FALSE, items |-> << >>]
DirNode      == [kind |-> "dir", head |-> EmptyStr, zip |-> FALSE, items |-> << >>]
EmptyFile    == [kind |-> "file", head |-> EmptyStr, zip |-> FALSE, items |-> << >>]
PlainFile    == [kind |-> "file", head |-> <<"h", "i">>, zip |-> FALSE, items |-> << >>]
\* local headers written, no central directory yet
PartialFile  == [kind |-> "file", head |-> Magic, zip |-> FALSE, items |-> << >>]
ZipFile(items) == [kind |-> "file", head |-> Magic, zip |-> TRUE, items |-> items]
\* an archive behind a stub: miniz finds its central directory from the end
StubZipFile  == [kind |-> "file", head |-> <<"h", "i">>, zip |-> TRUE, items |-> << >>]

\* the paths a caller passes to setZipFile
P1 == <<"/", "p">>
P2 == <<"/", "q">>
ZipPaths == {P1, P2}

\* the name miniz reads when the bytes behind zapath have been overwritten
\* with something fopen still takes for a name; a file created under it is
\* none of the files a caller names, and fs does not follow it
StrayPath == <<"?">>

Locs == ZipPaths \cup {StrayPath}

FilePut(files, path, file) ==
    IF path \in DOMAIN files THEN [files EXCEPT ![path] = file] ELSE files

FileAt(files, path) == IF path \in DOMAIN files THEN files[path] ELSE AbsentFile

\* QFileInfo::exists
exists(files, path) == FileAt(files, path).kind # "absent"

\* isArchive that looks at the first byte only
isArchive_firstByte(data) == Len(data) > 0 /\ data[1] = Magic[1]

isArchive(data) == startsWith(data, Magic)

\* QFile::read(maxlen): the bytes from the start of the file, maxlen at most
read(bytes, maxlen) ==
    SubSeq(bytes, 1, IF Len(bytes) < maxlen THEN Len(bytes) ELSE maxlen)

\* isZipFile that takes any file that is there for an archive
isZipFile_anyFile(files, filePath) == exists(files, filePath)

isZipFile(files, filePath) ==
    /\ FileAt(files, filePath).kind = "file"
    /\ isArchive(read(FileAt(files, filePath).head, 2))

nullptr == [mode |-> MZ_ZIP_MODE_INVALID, file |-> EmptyStr, items |-> << >>]

\* fopen(name, "wb"), then an empty writer on it
mz_zip_writer_init_file(files, pFilename) ==
    IF pFilename \in Locs /\ FileAt(files, pFilename).kind # "dir"
    THEN [ok |-> TRUE,
          pZip |-> [mode |-> MZ_ZIP_MODE_WRITING, file |-> pFilename, items |-> << >>],
          files |-> FilePut(files, pFilename, EmptyFile)]
    ELSE [ok |-> FALSE, pZip |-> nullptr, files |-> files]

\* fopen(name, "rb"), then the central directory is read
mz_zip_reader_init_file(files, pFilename) ==
    IF FileAt(files, pFilename).kind = "file" /\ FileAt(files, pFilename).zip
    THEN [ok |-> TRUE,
          pZip |-> [mode |-> MZ_ZIP_MODE_READING, file |-> pFilename,
                    items |-> FileAt(files, pFilename).items],
          files |-> files]
    ELSE [ok |-> FALSE, pZip |-> nullptr, files |-> files]

\* the central directory is written behind the items
mz_zip_writer_finalize_archive(files, pZip) ==
    FilePut(files, pZip.file, ZipFile(pZip.items))

\* mz_zip_writer_validate_archive_name
mz_valid_name(name) ==
    /\ ~(Len(name) > 0 /\ name[1] = "/")
    /\ ~contains(name, "\\")
    /\ ~contains(name, ":")

\* appends one item to a writer
mz_zip_writer_add(S, name, data) ==
    IF S.archive.mode = MZ_ZIP_MODE_WRITING /\ mz_valid_name(name)
    THEN [ok |-> TRUE,
          archive |-> [S.archive EXCEPT !.items = Append(@, [name |-> name, data |-> data])],
          fs |-> FilePut(S.fs, S.archive.file, PartialFile)]
    ELSE [ok |-> FALSE, archive |-> S.archive, fs |-> S.fs]

----------------------------------------------------------------------------
(* The session *)

EmptyMap == << >>

\* the members of the object and the files it opens
object == <<m_archive, m_zip_path, m_output_folder, m_zip_entries, allocated, fs>>

\* the object as one value
Cur == [archive |-> m_archive, zip_path |-> m_zip_path,
        output_folder |-> m_output_folder, zip_entries |-> m_zip_entries,
        allocated |-> allocated, fs |-> fs]

zipMode(pZip) == pZip.mode

isModeReading(S) == zipMode(S.archive) = MZ_ZIP_MODE_READING

isModeWriting(S) == zipMode(S.archive) = MZ_ZIP_MODE_WRITING

count(S) == IF S.archive = nullptr THEN 0 ELSE Len(S.archive.items)

\* explicit operator bool() const
operator_bool(S) == S.archive # nullptr

\* the stat of an index miniz does not hold is zeroed
za_file_stat(pZip, file_index) ==
    IF file_index >= 0 /\ file_index < Len(pZip.items)
    THEN [m_filename |-> pZip.items[file_index + 1].name,
          m_uncomp_size |-> Len(pZip.items[file_index + 1].data)]
    ELSE [m_filename |-> EmptyStr, m_uncomp_size |-> 0]

name(S, index) == za_file_stat(S.archive, index).m_filename

isFolder(S, index) == isFolderName(name(S, index))

isFile(S, index) == isFileName(name(S, index))

\* m_zip_entries[key] = value
MapPut(map, key, value) ==
    [k \in DOMAIN map \cup {key} |-> IF k = key THEN value ELSE map[k]]

MapSize(map) == Cardinality(DOMAIN map)

\* closeArchive that leaves the directory as it was
closeArchive_keepEntries(S) ==
    IF S.archive = nullptr THEN S
    ELSE [archive |-> nullptr,
          zip_entries |-> S.zip_entries,
          zip_path |-> EmptyStr,
          output_folder |-> EmptyStr,
          allocated |-> S.allocated - 1,
          fs |-> IF isModeWriting(S)
                 THEN mz_zip_writer_finalize_archive(S.fs, S.archive)
                 ELSE S.fs]

\* closeArchive that releases a writer without finalizing it
closeArchive_noFinalize(S) ==
    IF S.archive = nullptr THEN S
    ELSE [archive |-> nullptr,
          zip_entries |-> EmptyMap,
          zip_path |-> EmptyStr,
          output_folder |-> EmptyStr,
          allocated |-> S.allocated - 1,
          fs |-> S.fs]

\* closeArchive that leaves the path of the archive as it was
closeArchive_keepPath(S) ==
    IF S.archive = nullptr THEN S
    ELSE [archive |-> nullptr,
          zip_entries |-> EmptyMap,
          zip_path |-> S.zip_path,
          output_folder |-> EmptyStr,
          allocated |-> S.allocated - 1,
          fs |-> IF isModeWriting(S)
                 THEN mz_zip_writer_finalize_archive(S.fs, S.archive)
                 ELSE S.fs]

closeArchive(S) ==
    IF S.archive = nullptr THEN S
    ELSE [archive |-> nullptr,
          zip_entries |-> EmptyMap,
          zip_path |-> EmptyStr,
          output_folder |-> EmptyStr,
          allocated |-> S.allocated - 1,
          fs |-> IF isModeWriting(S)
                 THEN mz_zip_writer_finalize_archive(S.fs, S.archive)
                 ELSE S.fs]

\* updateZipContents that clears the directory and reads nothing
updateZipContents_cleared(S) == [S EXCEPT !.zip_entries = EmptyMap]

\* updateZipContents that records the entries that have no name as well
updateZipContents_withNameless(S) ==
    IF S.archive = nullptr THEN [S EXCEPT !.zip_entries = EmptyMap]
    ELSE LET names == {name(S, it) : it \in 0..(count(S) - 1)}
         IN  [S EXCEPT !.zip_entries =
                 [n \in names |->
                     CHOOSE it \in 0..(count(S) - 1) :
                         /\ name(S, it) = n
                         /\ \A later \in (it + 1)..(count(S) - 1) : name(S, later) # n]]

updateZipContents(S) ==
    IF S.archive = nullptr THEN [S EXCEPT !.zip_entries = EmptyMap]
    ELSE LET names == {name(S, it) : it \in 0..(count(S) - 1)} \ {EmptyStr}
         IN  [S EXCEPT !.zip_entries =
                 [n \in names |->
                     CHOOSE it \in 0..(count(S) - 1) :
                         /\ name(S, it) = n
                         /\ \A later \in (it + 1)..(count(S) - 1) : name(S, later) # n]]

setOutputFolder(S, outputFolder) ==
    IF outputFolder = EmptyStr /\ S.zip_path # EmptyStr
    THEN [S EXCEPT !.output_folder = absolutePath(S.zip_path)]
    ELSE [S EXCEPT !.output_folder = outputFolder]

\* what miniz can read behind zapath, the pointer into the temporary that
\* zipPath.toUtf8() returned and that is gone when the open call is made:
\* the bytes of the path, other bytes, or no name at all
zapath(zipPath) == {zipPath, StrayPath, EmptyStr}

\* setZipFile that closes the archive that is set only when the new one
\* has been opened
setZipFile_keepOnFailure(S, zipPath, mode, za_path) ==
    LET closed == closeArchive(S)
        zamode ==
            CASE mode = ModeAuto ->
                    IF ~exists(closed.fs, zipPath) THEN ModeWrite
                    ELSE IF isZipFile(closed.fs, zipPath) THEN ModeRead
                    ELSE ModeAuto
              [] mode = ModeRead ->
                    IF isZipFile(closed.fs, zipPath) THEN ModeRead ELSE ModeAuto
              [] mode = ModeWrite -> ModeWrite
              [] OTHER -> ModeAuto
        created == [closed EXCEPT !.allocated = @ + 1]
        opened == IF zamode = ModeWrite
                  THEN mz_zip_writer_init_file(closed.fs, za_path)
                  ELSE mz_zip_reader_init_file(closed.fs, za_path)
        set == [created EXCEPT !.archive = opened.pZip,
                               !.zip_path = zipPath,
                               !.fs = opened.files]
    IN  IF zamode = 0 THEN [s |-> S, ret |-> FALSE]
        ELSE IF ~opened.ok THEN [s |-> S, ret |-> FALSE]
        ELSE IF isModeReading(set)
             THEN [s |-> setOutputFolder(updateZipContents(set), EmptyStr), ret |-> TRUE]
             ELSE [s |-> set, ret |-> TRUE]

setZipFile(S, zipPath, mode, za_path) ==
    LET closed == closeArchive(S)
        zamode ==
            CASE mode = ModeAuto ->
                    IF ~exists(closed.fs, zipPath) THEN ModeWrite
                    ELSE IF isZipFile(closed.fs, zipPath) THEN ModeRead
                    ELSE ModeAuto
              [] mode = ModeRead ->
                    IF isZipFile(closed.fs, zipPath) THEN ModeRead ELSE ModeAuto
              [] mode = ModeWrite -> ModeWrite
              [] OTHER -> ModeAuto
        \* new mz_zip_archive()
        created == [closed EXCEPT !.allocated = @ + 1]
        opened == IF zamode = ModeWrite
                  THEN mz_zip_writer_init_file(closed.fs, za_path)
                  ELSE mz_zip_reader_init_file(closed.fs, za_path)
        set == [created EXCEPT !.archive = opened.pZip,
                               !.zip_path = zipPath,
                               !.fs = opened.files]
    IN  IF zamode = 0 THEN [s |-> closed, ret |-> FALSE]
        ELSE IF ~opened.ok
             THEN [s |-> [created EXCEPT !.allocated = @ - 1], ret |-> FALSE]
        ELSE IF isModeReading(set)
             THEN [s |-> setOutputFolder(updateZipContents(set), EmptyStr), ret |-> TRUE]
             ELSE [s |-> set, ret |-> TRUE]

\* the central directory is read from the bytes in memory
mz_zip_reader_init_mem(pMem) ==
    IF pMem.zip
    THEN [ok |-> TRUE,
          pZip |-> [mode |-> MZ_ZIP_MODE_READING, file |-> EmptyStr, items |-> pMem.items]]
    ELSE [ok |-> FALSE, pZip |-> nullptr]

\* setZipBuffer that leaves the object it made when the bytes do not open
setZipBuffer_noDelete(S, bufferedZip) ==
    LET created == [S EXCEPT !.allocated = @ + 1]
        opened == mz_zip_reader_init_mem(bufferedZip)
    IN  IF ~isArchive(bufferedZip.head) THEN [s |-> S, ret |-> FALSE]
        ELSE IF opened.ok
             THEN [s |-> updateZipContents(
                             [closeArchive(created) EXCEPT !.archive = opened.pZip]),
                   ret |-> TRUE]
             ELSE [s |-> created, ret |-> FALSE]

\* setZipBuffer that closes the archive that is set before it looks at
\* the bytes, as setZipFile does
setZipBuffer_closeFirst(S, bufferedZip) ==
    LET closed == closeArchive(S)
        created == [closed EXCEPT !.allocated = @ + 1]
        opened == mz_zip_reader_init_mem(bufferedZip)
    IN  IF ~isArchive(bufferedZip.head) THEN [s |-> closed, ret |-> FALSE]
        ELSE IF opened.ok
             THEN [s |-> updateZipContents([created EXCEPT !.archive = opened.pZip]),
                   ret |-> TRUE]
             ELSE [s |-> closed, ret |-> FALSE]

setZipBuffer(S, bufferedZip) ==
    LET \* new mz_zip_archive()
        created == [S EXCEPT !.allocated = @ + 1]
        opened == mz_zip_reader_init_mem(bufferedZip)
    IN  IF ~isArchive(bufferedZip.head) THEN [s |-> S, ret |-> FALSE]
        ELSE IF opened.ok
             THEN [s |-> updateZipContents(
                             [closeArchive(created) EXCEPT !.archive = opened.pZip]),
                   ret |-> TRUE]
             ELSE [s |-> [created EXCEPT !.allocated = @ - 1], ret |-> FALSE]

----------------------------------------------------------------------------
(* Adding to the archive *)

\* the files and folders a caller names as sources
SrcFile == <<"/", "s", "/", "a">>
SrcDir  == <<"/", "s", "/", "d">>
SrcNone == <<"/", "s", "/", "x">>

SrcPaths == {SrcFile, SrcDir, SrcNone}

\* a folder with a file, a folder that holds a file, and an empty folder
TreeDir == <<"/", "t", "/", "r">>

TreePaths == {TreeDir, TreeDir \o <<"/", "s">>, TreeDir \o <<"/", "e">>}

SrcFS ==
    (SrcFile :> [kind |-> "file", data |-> <<1>>])
    @@ (SrcDir :> [kind |-> "dir", data |-> << >>])
    @@ ((SrcDir \o <<"/", "a">>) :> [kind |-> "file", data |-> <<2>>])
    @@ (TreeDir :> [kind |-> "dir", data |-> << >>])
    @@ ((TreeDir \o <<"/", "a">>) :> [kind |-> "file", data |-> <<1>>])
    @@ ((TreeDir \o <<"/", "s">>) :> [kind |-> "dir", data |-> << >>])
    @@ ((TreeDir \o <<"/", "s", "/", "b">>) :> [kind |-> "file", data |-> <<2>>])
    @@ ((TreeDir \o <<"/", "e">>) :> [kind |-> "dir", data |-> << >>])

SrcExists(path) == path \in DOMAIN SrcFS

\* QDirIterator(sourcePath, ..., Subdirectories): every path below the folder
dirIterator(sourcePath) ==
    SortedKeys({p \in DOMAIN SrcFS : /\ Len(p) > Len(sourcePath) + 1
                                     /\ startsWith(p, sourcePath \o <<s_sep>>)})

\* QDir(dir).relativeFilePath(fullPath) for a path below dir
relativeFilePath(dir, fullPath) == mid(fullPath, Len(dir) + 1)

BufFile(fileName_, fileData) == [name |-> fileName_, data |-> fileData]

Failed(S) == [s |-> S, ret |-> FALSE]

\* addEntry that does not look the name up in the directory
addEntry_noDuplicateCheck(S, entryName, addFunc) ==
    IF entryName = EmptyStr THEN Failed(S)
    ELSE IF ~addFunc.ok THEN Failed(S)
    ELSE [s |-> [S EXCEPT !.archive = addFunc.archive,
                          !.fs = addFunc.fs,
                          !.zip_entries = MapPut(@, entryName, MapSize(@))],
          ret |-> TRUE]

\* addEntry that looks up the names of files only
addEntry_filesOnlyCheck(S, entryName, addFunc) ==
    IF entryName = EmptyStr THEN Failed(S)
    ELSE IF isFileName(entryName) /\ entryName \in DOMAIN S.zip_entries THEN Failed(S)
    ELSE IF ~addFunc.ok THEN Failed(S)
    ELSE [s |-> [S EXCEPT !.archive = addFunc.archive,
                          !.fs = addFunc.fs,
                          !.zip_entries = MapPut(@, entryName, MapSize(@))],
          ret |-> TRUE]

\* addFunc is what the call of the add function would give on S
addEntry(S, entryName, addFunc) ==
    IF entryName = EmptyStr THEN Failed(S)
    ELSE IF entryName \in DOMAIN S.zip_entries THEN Failed(S)
    ELSE IF ~addFunc.ok THEN Failed(S)
    ELSE [s |-> [S EXCEPT !.archive = addFunc.archive,
                          !.fs = addFunc.fs,
                          !.zip_entries = MapPut(@, entryName, MapSize(@))],
          ret |-> TRUE]

\* addToZip(const BufFile &) that hands the data of the item to miniz
\* whatever the name is
addToZip_BufFile_withData(S, bufFile) ==
    IF ~isModeWriting(S) THEN Failed(S)
    ELSE addEntry(S, bufFile.name, mz_zip_writer_add(S, bufFile.name, bufFile.data))

addToZip_BufFile(S, bufFile) ==
    IF ~isModeWriting(S) THEN Failed(S)
    ELSE LET data == IF isFolderName(bufFile.name) THEN << >> ELSE bufFile.data
         IN  addEntry(S, bufFile.name, mz_zip_writer_add(S, bufFile.name, data))

RECURSIVE addBufListFrom_skipFailed(_, _, _)
\* the loop going on to the next key after an item that was not added
addBufListFrom_skipFailed(S, bufList, keys) ==
    IF keys = << >> THEN [s |-> S, ret |-> TRUE]
    ELSE LET key == Head(keys)
             r   == addToZip_BufFile(S, BufFile(key, bufList[key]))
         IN  IF r.ret
             THEN addBufListFrom_skipFailed(
                      [r.s EXCEPT !.zip_entries = MapPut(@, key, MapSize(@))],
                      bufList, Tail(keys))
             ELSE [s |-> addBufListFrom_skipFailed(r.s, bufList, Tail(keys)).s,
                   ret |-> FALSE]

RECURSIVE addBufListFrom(_, _, _)
\* the loop of addToZip(const BufList &) over the keys left
addBufListFrom(S, bufList, keys) ==
    IF keys = << >> THEN [s |-> S, ret |-> TRUE]
    ELSE LET key == Head(keys)
             r   == addToZip_BufFile(S, BufFile(key, bufList[key]))
         IN  IF r.ret
             THEN addBufListFrom(
                      [r.s EXCEPT !.zip_entries = MapPut(@, key, MapSize(@))],
                      bufList, Tail(keys))
             ELSE Failed(r.s)

addToZip_BufList(S, bufList) ==
    addBufListFrom(S, bufList, SortedKeys(DOMAIN bufList))

\* the lambda addFile
addFile(S, source, entry) ==
    addEntry(S, entry,
             IF SrcExists(source) /\ SrcFS[source].kind = "file"
             THEN mz_zip_writer_add(S, entry, SrcFS[source].data)
             ELSE [ok |-> FALSE, archive |-> S.archive, fs |-> S.fs])

\* the lambda addFolder giving the entry the name it was called with
addFolder_asIs(S, entry) == addToZip_BufFile(S, BufFile(entry, << >>))

\* the lambda addFolder
addFolder(S, entry) == addToZip_BufFile(S, BufFile(toFolderName(entry), << >>))

RECURSIVE addFolderContents_markersLast(_, _, _, _, _)
\* the loop adding the files found by the iterator before the folders
addFolderContents_markersLast(S, sourcePath, entryName, paths, added) ==
    LET Rel(p) == joinPath(entryName, relativeFilePath(sourcePath, p))
        AddAll[i \in 0..Len(paths), wantFile \in BOOLEAN] ==
            IF i = 0
            THEN IF wantFile THEN [s |-> S, ret |-> added]
                 ELSE AddAll[Len(paths), TRUE]
            ELSE LET before == AddAll[i - 1, wantFile]
                     isF == SrcFS[paths[i]].kind = "file"
                     r == IF isF THEN addFile(before.s, paths[i], Rel(paths[i]))
                          ELSE addFolder(before.s, Rel(paths[i]))
                 IN  IF isF = wantFile
                     THEN [s |-> r.s, ret |-> before.ret \/ r.ret]
                     ELSE before
    IN  AddAll[Len(paths), FALSE]

RECURSIVE addFolderContents(_, _, _, _, _)
\* the while loop over the iterator: paths are the paths it has yet to give
addFolderContents(S, sourcePath, entryName, paths, added) ==
    IF paths = << >> THEN [s |-> S, ret |-> added]
    ELSE LET fullPath == Head(paths)
             relPath  == joinPath(entryName, relativeFilePath(sourcePath, fullPath))
             r == IF SrcFS[fullPath].kind = "file"
                  THEN addFile(S, fullPath, relPath)
                  ELSE addFolder(S, relPath)
         IN  addFolderContents(r.s, sourcePath, entryName, Tail(paths), added \/ r.ret)

\* addToZip of a folder that reports what the add of the marker gave
addToZip_Path_Entry_markerOnly(S, sourcePath, entryName) ==
    IF S.archive = nullptr \/ entryName = EmptyStr \/ ~SrcExists(sourcePath)
    THEN Failed(S)
    ELSE IF ~isModeWriting(S) THEN Failed(S)
    ELSE IF SrcFS[sourcePath].kind = "file" THEN addFile(S, sourcePath, entryName)
    ELSE LET r == addFolder(S, entryName)
         IN  [s |-> addFolderContents(r.s, sourcePath, entryName,
                                      dirIterator(sourcePath), r.ret).s,
              ret |-> r.ret]

addToZip_Path_Entry(S, sourcePath, entryName) ==
    IF S.archive = nullptr \/ entryName = EmptyStr \/ ~SrcExists(sourcePath)
    THEN Failed(S)
    ELSE IF ~isModeWriting(S) THEN Failed(S)
    ELSE IF SrcFS[sourcePath].kind = "file" THEN addFile(S, sourcePath, entryName)
    ELSE IF SrcFS[sourcePath].kind = "dir"
         THEN LET r == addFolder(S, entryName)
              IN  addFolderContents(r.s, sourcePath, entryName,
                                    dirIterator(sourcePath), r.ret)
         ELSE Failed(S)

addToZip_Path(S, sourcePath) ==
    IF ~SrcExists(sourcePath) THEN Failed(S)
    ELSE addToZip_Path_Entry(S, sourcePath, fileName(sourcePath))

----------------------------------------------------------------------------
(* Extraction to a buffer and lookups *)

\* a QByteArray: null or not, and its bytes
NullBytes == [null |-> TRUE, bytes |-> << >>]

Bytes(data) == [null |-> FALSE, bytes |-> data]

\* QByteArray operator==: a null array equals an empty one
BytesEqual(x, y) == x.bytes = y.bytes

\* mz_zip_reader_extract_to_heap allocates the size of the entry; for an entry
\* of no bytes the allocators of the platforms Qt builds for give a pointer,
\* so that the array is empty and not null
extractDataRef(S, index) ==
    IF ~isModeReading(S) THEN NullBytes
    ELSE IF index >= 0 /\ index < Len(S.archive.items)
         THEN Bytes(S.archive.items[index + 1].data)
         ELSE NullBytes

extractData(S, index) ==
    LET extrRef == extractDataRef(S, index)
    IN  IF extrRef.null THEN NullBytes ELSE Bytes(extrRef.bytes)

\* a default-constructed BufFile, as the extraction gives it back
NullBufFile == [name |-> EmptyStr, data |-> NullBytes]

\* extractToBuf(int): the name and the data of one entry
extractToBuf_Index(S, index) ==
    IF S.archive = nullptr THEN NullBufFile
    ELSE IF index = -1 THEN NullBufFile
    ELSE LET filename == name(S, index)
         IN  IF filename = EmptyStr THEN NullBufFile
             ELSE [name |-> filename,
                   data |-> IF isFileName(filename)
                            THEN extractData(S, index)
                            ELSE NullBytes]

RECURSIVE extractToBufFrom_withFolders(_, _, _)
\* the loop giving every entry a key, a folder marker one with null data
extractToBufFrom_withFolders(S, it, res) ==
    IF it >= count(S) THEN res
    ELSE LET filename == name(S, it)
             data == IF isFileName(filename) THEN extractData(S, it) ELSE NullBytes
         IN  extractToBufFrom_withFolders(S, it + 1, MapPut(res, filename, data))

RECURSIVE extractToBufFrom(_, _, _)
\* the loop of extractToBuf() from index it on
extractToBufFrom(S, it, res) ==
    IF it >= count(S) THEN res
    ELSE LET filename == name(S, it)
             data == extractData(S, it)
         IN  extractToBufFrom(S, it + 1,
                 IF isFileName(filename) /\ ~data.null
                 THEN MapPut(res, filename, data)
                 ELSE res)

\* extractToBuf(): { name : data } of the archive
extractToBuf(S) ==
    IF S.archive = nullptr THEN EmptyMap
    ELSE extractToBufFrom(S, 0, EmptyMap)

RECURSIVE findByFileName(_, _, _)
\* the deep search of findIndex over the keys left
findByFileName(S, name_, keys) ==
    IF keys = << >> THEN -1
    ELSE IF isFileName(Head(keys)) /\ name_ = fileName(Head(keys))
         THEN S.zip_entries[Head(keys)]
         ELSE findByFileName(S, name_, Tail(keys))

findIndex(S, name_) ==
    IF name_ \in DOMAIN S.zip_entries THEN S.zip_entries[name_]
    ELSE IF ~contains(name_, s_sep)
         THEN findByFileName(S, name_, SortedKeys(DOMAIN S.zip_entries))
         ELSE -1

----------------------------------------------------------------------------
(* Extraction to the disk *)

RECURSIVE splitPath(_, _, _)
\* the components of a path: part is the component being read
splitPath(path, part, parts) ==
    IF path = << >>
    THEN IF part = << >> THEN parts ELSE Append(parts, part)
    ELSE IF Head(path) = s_sep
         THEN splitPath(Tail(path), << >>,
                        IF part = << >> THEN parts ELSE Append(parts, part))
         ELSE splitPath(Tail(path), Append(part, Head(path)), parts)

\* the place on the disk a path names
Components(path) == splitPath(path, << >>, << >>)

\* what is at a place: a folder, or a file with its bytes
DiskDir == [kind |-> "dir", data |-> << >>]

DiskFile(data) == [kind |-> "file", data |-> data]

EmptyDisk == << >>

kindAt(files, parts) ==
    IF parts = << >> THEN "dir"
    ELSE IF parts \in DOMAIN files THEN files[parts].kind
    ELSE "absent"

\* QFileInfo::exists on the disk: a file does not answer to a name that
\* ends in the separator
existsOnDisk(files, path) ==
    \/ kindAt(files, Components(path)) = "dir"
    \/ kindAt(files, Components(path)) = "file" /\ ~endsWith(path, s_sep)

\* QDir().mkpath: every folder of the path that is missing is created; it
\* fails when a file is in the way
mkpath(files, path) ==
    LET parts == Components(path)
        above == {SubSeq(parts, 1, i) : i \in 1..Len(parts)}
    IN  IF \E a \in above : kindAt(files, a) = "file"
        THEN [ok |-> FALSE, files |-> files]
        ELSE [ok |-> TRUE,
              files |-> [a \in DOMAIN files \cup above |->
                            IF a \in above THEN DiskDir ELSE files[a]]]

\* the lambda createFolder
createFolder(files, path) ==
    IF existsOnDisk(files, path) THEN [ok |-> TRUE, files |-> files]
    ELSE mkpath(files, path)

\* fopen(name, "wb") and the bytes of the entry written to it
mz_zip_reader_extract_to_file(files, data, pDst_filename) ==
    LET parts == Components(pDst_filename)
    IN  IF /\ parts # << >>
           /\ ~endsWith(pDst_filename, s_sep)
           /\ kindAt(files, SubSeq(parts, 1, Len(parts) - 1)) = "dir"
           /\ kindAt(files, parts) # "dir"
        THEN [ok |-> TRUE, files |-> MapPut(files, parts, DiskFile(data))]
        ELSE [ok |-> FALSE, files |-> files]

\* extractIndex(int, const QString &)
extractIndex_Path(S, files, index, outputPath) ==
    LET filename == name(S, index)
        nothing == [disk |-> files, ret |-> FALSE]
    IN  IF index = -1 THEN nothing
        ELSE IF S.archive = nullptr THEN nothing
        ELSE IF ~isModeReading(S) THEN nothing
        ELSE IF filename = EmptyStr THEN nothing
        ELSE IF isFileName(filename)
             THEN LET made == createFolder(files, absolutePath(outputPath))
                      res == mz_zip_reader_extract_to_file(
                                 made.files, S.archive.items[index + 1].data, outputPath)
                  IN  IF ~made.ok THEN nothing
                      ELSE [disk |-> res.files, ret |-> res.ok]
             ELSE LET made == createFolder(files, outputPath)
                  IN  [disk |-> made.files, ret |-> made.ok]

\* extractIndex(int) that does not look at the output folder
extractIndex_anyFolder(S, files, index) ==
    extractIndex_Path(S, files, index, joinPath(S.output_folder, name(S, index)))

\* extractIndex(int)
extractIndex(S, files, index) ==
    IF S.output_folder = EmptyStr THEN [disk |-> files, ret |-> FALSE]
    ELSE extractIndex_Path(S, files, index, joinPath(S.output_folder, name(S, index)))

RECURSIVE extractAllFrom_skipFailed(_, _, _)
\* the loop going on to the next index after an entry that was not extracted
extractAllFrom_skipFailed(S, files, i) ==
    IF i >= count(S) THEN [disk |-> files, ret |-> TRUE]
    ELSE LET r == extractIndex(S, files, i)
         IN  IF ~r.ret
             THEN [disk |-> extractAllFrom_skipFailed(S, r.disk, i + 1).disk,
                   ret |-> FALSE]
             ELSE extractAllFrom_skipFailed(S, r.disk, i + 1)

RECURSIVE extractAllFrom(_, _, _)
\* the loop of extractAll from index i on
extractAllFrom(S, files, i) ==
    IF i >= count(S) THEN [disk |-> files, ret |-> TRUE]
    ELSE LET r == extractIndex(S, files, i)
         IN  IF ~r.ret THEN [disk |-> r.disk, ret |-> FALSE]
             ELSE extractAllFrom(S, r.disk, i + 1)

extractAll(S, files) ==
    IF count(S) = 0 THEN [disk |-> files, ret |-> FALSE]
    ELSE extractAllFrom(S, files, 0)

RECURSIVE extractFolderFrom_wholeName(_, _, _, _, _, _)
\* the loop joining the output path with the whole name of the entry
extractFolderFrom_wholeName(S, files, folder_entry, outputPath, keys, extracted) ==
    IF keys = << >> THEN [disk |-> files, ret |-> extracted]
    ELSE IF startsWith(Head(keys), folder_entry)
         THEN LET r == extractIndex_Path(S, files, S.zip_entries[Head(keys)],
                                         joinPath(outputPath, Head(keys)))
              IN  extractFolderFrom_wholeName(S, r.disk, folder_entry, outputPath,
                                              Tail(keys), extracted \/ r.ret)
         ELSE extractFolderFrom_wholeName(S, files, folder_entry, outputPath,
                                          Tail(keys), extracted)

RECURSIVE extractFolderFrom(_, _, _, _, _, _)
\* the loop of extractFolder over the keys of the directory left
extractFolderFrom(S, files, folder_entry, outputPath, keys, extracted) ==
    IF keys = << >> THEN [disk |-> files, ret |-> extracted]
    ELSE IF startsWith(Head(keys), folder_entry)
         THEN LET relPath == mid(Head(keys), Len(folder_entry))
                  r == extractIndex_Path(S, files, S.zip_entries[Head(keys)],
                                         joinPath(outputPath, relPath))
              IN  extractFolderFrom(S, r.disk, folder_entry, outputPath,
                                    Tail(keys), extracted \/ r.ret)
         ELSE extractFolderFrom(S, files, folder_entry, outputPath,
                                Tail(keys), extracted)

\* extractFolder(int, const QString &)
extractFolder_Path(S, files, index, outputPath) ==
    IF ~isFolder(S, index) THEN [disk |-> files, ret |-> FALSE]
    ELSE extractFolderFrom(S, files, name(S, index), outputPath,
                           SortedKeys(DOMAIN S.zip_entries), FALSE)

----------------------------------------------------------------------------
(* The calls a caller makes *)

\* the items and lists a caller passes
BufFiles ==
    { BufFile(<<"a">>, <<1>>), BufFile(<<"a">>, <<2>>), BufFile(<<"d", "/">>, <<1>>),
      BufFile(EmptyStr, <<1>>), BufFile(<<"/", "a">>, <<1>>) }

BufLists ==
    { EmptyMap,
      (<<"a">> :> <<1>>),
      (<<"a">> :> <<2>>) @@ (<<"d", "/">> :> << >>),
      (EmptyStr :> <<1>>) @@ (<<"a">> :> <<1>>) }

EntryNames == { EmptyStr, <<"d">> }

\* an archive written elsewhere, with one name given to two entries
DupItems ==
    << [name |-> <<"a">>, data |-> <<1>>], [name |-> <<"a">>, data |-> <<2>>] >>

\* an archive written elsewhere, with an entry that has no name
NamelessItems ==
    << [name |-> EmptyStr, data |-> <<1>>], [name |-> <<"a">>, data |-> <<2>>] >>

\* the files the paths name before the first call
InitFiles ==
    { AbsentFile, PlainFile, PartialFile, StubZipFile,
      ZipFile(<< [name |-> <<"a">>, data |-> <<2>>] >>), ZipFile(DupItems),
      ZipFile(NamelessItems) }

Commit(S) ==
    /\ m_archive' = S.archive
    /\ m_zip_path' = S.zip_path
    /\ m_output_folder' = S.output_folder
    /\ m_zip_entries' = S.zip_entries
    /\ allocated' = S.allocated
    /\ fs' = S.fs
    /\ disk' = disk

ItemNames(items) == {items[i].name : i \in 1..Len(items)}

\* the record of the calls of a session opened for writing: the path it was
\* opened with, whether ModeAuto opened it, the names the file at the path
\* held before, the buffered items and the number of entries the add calls
\* reported as added, and the call that ended it
NoSession ==
    [path |-> EmptyStr, viaAuto |-> FALSE, prev |-> {}, added |-> {}, n |-> 0,
     ended |-> "none"]

SessionOpened(S, zipPath, mode) ==
    [path |-> zipPath, viaAuto |-> mode = ModeAuto,
     prev |-> ItemNames(FileAt(closeArchive(S).fs, zipPath).items),
     added |-> {}, n |-> 0, ended |-> "open"]

SessionEnded(S, by) ==
    IF isModeWriting(S) THEN [session EXCEPT !.ended = by] ELSE session

\* the entries a call added, and the buffered items among them
SessionAdded(S, T, bufFiles) ==
    IF isModeWriting(S)
    THEN [session EXCEPT !.n = @ + (MapSize(T.zip_entries) - MapSize(S.zip_entries)),
                         !.added = @ \cup {b \in bufFiles :
                                              /\ b.name \notin DOMAIN S.zip_entries
                                              /\ b.name \in DOMAIN T.zip_entries}]
    ELSE session

\* op: the call, its arguments (for closeArchive, the mode it found), what it
\* returned and, for setZipFile, the names the file at the path held when the
\* call was made; an add that follows the setZipFile directly keeps them
Call(kind, arg, ret, had) == [kind |-> kind, arg |-> arg, ret |-> ret, had |-> had]

HadBefore == IF op.kind = "setZipFile" /\ op.ret THEN op.had ELSE {}

Init ==
    /\ m_archive = nullptr
    /\ m_zip_path = EmptyStr
    /\ m_output_folder = EmptyStr
    /\ m_zip_entries = EmptyMap
    /\ allocated = 0
    /\ \E f \in InitFiles : fs = (P1 :> f) @@ (P2 :> DirNode)
    /\ disk = EmptyDisk
    /\ op = Call("new", << >>, TRUE, {})
    /\ session = NoSession

DoSetZipFile(zipPath, mode, za_path) ==
    LET r == setZipFile(Cur, zipPath, mode, za_path)
    IN  /\ Commit(r.s)
        /\ op' = Call("setZipFile", <<zipPath, mode>>, r.ret,
                      ItemNames(FileAt(closeArchive(Cur).fs, zipPath).items))

DoCloseArchive ==
    /\ Commit(closeArchive(Cur))
    /\ op' = Call("closeArchive", <<zipMode(m_archive)>>, TRUE, {})

DoAddBufFile(bufFile) ==
    LET r == addToZip_BufFile(Cur, bufFile)
    IN  /\ count(r.s) <= MaxEntries
        /\ Commit(r.s)
        /\ op' = Call("addBufFile", bufFile, r.ret, HadBefore)

DoAddBufList(bufList) ==
    LET r == addToZip_BufList(Cur, bufList)
    IN  /\ count(r.s) <= MaxEntries
        /\ Commit(r.s)
        /\ op' = Call("addBufList", bufList, r.ret, HadBefore)

DoAddPath(sourcePath) ==
    LET r == addToZip_Path(Cur, sourcePath)
    IN  /\ count(r.s) <= MaxEntries
        /\ Commit(r.s)
        /\ op' = Call("addPath", <<sourcePath, fileName(sourcePath)>>, r.ret, HadBefore)

DoAddPathEntry(sourcePath, entryName) ==
    LET r == addToZip_Path_Entry(Cur, sourcePath, entryName)
    IN  /\ count(r.s) <= MaxEntries
        /\ Commit(r.s)
        /\ op' = Call("addPathEntry", <<sourcePath, entryName>>, r.ret, HadBefore)

SetZipFile ==
    \E zipPath \in ZipPaths, mode \in Modes :
        \E za_path \in zapath(zipPath) :
            DoSetZipFile(zipPath, mode, za_path) /\ UNCHANGED session

CloseArchive == DoCloseArchive /\ UNCHANGED session

AddBufFile == \E bufFile \in BufFiles : DoAddBufFile(bufFile) /\ UNCHANGED session

AddBufList == \E bufList \in BufLists : DoAddBufList(bufList) /\ UNCHANGED session

AddPath == \E sourcePath \in SrcPaths : DoAddPath(sourcePath) /\ UNCHANGED session

AddPathEntry ==
    \E sourcePath \in SrcPaths, entryName \in EntryNames :
        DoAddPathEntry(sourcePath, entryName) /\ UNCHANGED session

Next ==
    \/ SetZipFile
    \/ CloseArchive
    \/ AddBufFile
    \/ AddBufList
    \/ AddPath
    \/ AddPathEntry

Spec == Init /\ [][Next]_vars

----------------------------------------------------------------------------
(* The same calls, with the record of the last writing session kept *)

HistSetZipFile ==
    \E zipPath \in ZipPaths, mode \in Modes :
        \E za_path \in zapath(zipPath) :
            /\ DoSetZipFile(zipPath, mode, za_path)
            /\ session' = IF op'.ret /\ m_archive'.mode = MZ_ZIP_MODE_WRITING
                          THEN SessionOpened(Cur, zipPath, mode)
                          ELSE SessionEnded(Cur, "setZipFile")

HistCloseArchive ==
    /\ DoCloseArchive
    /\ session' = SessionEnded(Cur, "closeArchive")

HistAddBufFile ==
    \E bufFile \in BufFiles :
        /\ DoAddBufFile(bufFile)
        /\ session' = SessionAdded(Cur, Cur', {bufFile})

HistAddBufList ==
    \E bufList \in BufLists :
        /\ DoAddBufList(bufList)
        /\ session' = SessionAdded(Cur, Cur', {BufFile(k, bufList[k]) : k \in DOMAIN bufList})

HistAddPath ==
    \E sourcePath \in SrcPaths :
        /\ DoAddPath(sourcePath)
        /\ session' = SessionAdded(Cur, Cur', {})

HistAddPathEntry ==
    \E sourcePath \in SrcPaths, entryName \in EntryNames :
        /\ DoAddPathEntry(sourcePath, entryName)
        /\ session' = SessionAdded(Cur, Cur', {})

HistNext ==
    \/ HistSetZipFile
    \/ HistCloseArchive
    \/ HistAddBufFile
    \/ HistAddBufList
    \/ HistAddPath
    \/ HistAddPathEntry

SpecHist == Init /\ [][HistNext]_vars

----------------------------------------------------------------------------
(* Archives that are there before the first call, and their extraction *)

Item(name_, data) == [name |-> name_, data |-> data]

\* a tree with a folder in a folder and a file beside it
TreeItems ==
    << Item(<<"d", "/">>, << >>), Item(<<"d", "/", "a">>, <<1>>),
       Item(<<"d", "/", "s", "/">>, << >>), Item(<<"d", "/", "s", "/", "a">>, <<2>>),
       Item(<<"c">>, <<3>>) >>

\* a file, a file below a folder of the same name, and one more file
ClashItems ==
    << Item(<<"a">>, <<1>>), Item(<<"a", "/", "b">>, <<2>>), Item(<<"c">>, <<3>>) >>

\* two files of the same name in two folders, the later folder first by name
TwinItems ==
    << Item(<<"d", "/", "a">>, <<1>>), Item(<<"b", "/", "a">>, <<2>>) >>

ArchiveFiles ==
    { ZipFile(TreeItems), ZipFile(ClashItems), ZipFile(TwinItems), ZipFile(<< >>) }

\* the folders a caller extracts to, and the indexes a caller passes
OutputPaths == { <<"/", "o">> }

IndexArgs(S) == -1 .. count(S)

ArchiveInit ==
    /\ m_archive = nullptr
    /\ m_zip_path = EmptyStr
    /\ m_output_folder = EmptyStr
    /\ m_zip_entries = EmptyMap
    /\ allocated = 0
    /\ \E f \in ArchiveFiles : fs = (P1 :> f) @@ (P2 :> DirNode)
    /\ disk = EmptyDisk
    /\ op = Call("new", << >>, TRUE, {})
    /\ session = NoSession

ExtractAll ==
    LET r == extractAll(Cur, disk)
    IN  /\ disk' = r.disk
        /\ op' = Call("extractAll", << >>, r.ret, {})
        /\ UNCHANGED <<object, session>>

ExtractFolder ==
    \E index \in IndexArgs(Cur), outputPath \in OutputPaths :
        LET r == extractFolder_Path(Cur, disk, index, outputPath)
        IN  /\ disk' = r.disk
            /\ op' = Call("extractFolder", <<index, outputPath>>, r.ret, {})
            /\ UNCHANGED <<object, session>>

ExtractNext ==
    \/ SetZipFile
    \/ CloseArchive
    \/ AddBufFile
    \/ ExtractAll
    \/ ExtractFolder

SpecExtract == ArchiveInit /\ [][ExtractNext]_vars

----------------------------------------------------------------------------
(* Folders with folders in them, added to a writer *)

\* the number of items a writer takes when folders are added
MaxTreeEntries == 5

TreeEntryNames == { <<"t">>, <<"u", "/">> }

AddTree ==
    \E sourcePath \in TreePaths, entryName \in TreeEntryNames :
        LET r == addToZip_Path_Entry(Cur, sourcePath, entryName)
        IN  /\ count(r.s) <= MaxTreeEntries
            /\ Commit(r.s)
            /\ op' = Call("addPathEntry", <<sourcePath, entryName>>, r.ret, HadBefore)
            /\ UNCHANGED session

\* a buffered item with the name of a file of the folder as AddTree adds it
TreeBufFiles == { BufFile(<<"t", "/", "a">>, <<3>>) }

AddTreeBufFile ==
    \E bufFile \in TreeBufFiles :
        LET r == addToZip_BufFile(Cur, bufFile)
        IN  /\ count(r.s) <= MaxTreeEntries
            /\ Commit(r.s)
            /\ op' = Call("addBufFile", bufFile, r.ret, HadBefore)
            /\ UNCHANGED session

TreeNext ==
    \/ SetZipFile
    \/ CloseArchive
    \/ AddTree
    \/ AddTreeBufFile

SpecTree == Init /\ [][TreeNext]_vars

----------------------------------------------------------------------------
(* Folder markers written, then read back and extracted *)

\* a root folder, a folder in it and a folder in that one
NestedMarkers ==
    { BufFile(<<"r", "/">>, << >>),
      BufFile(<<"r", "/", "s", "/">>, << >>),
      BufFile(<<"r", "/", "s", "/", "t", "/">>, << >>) }

HistAddMarker ==
    \E bufFile \in NestedMarkers :
        LET r == addToZip_BufFile(Cur, bufFile)
        IN  /\ Commit(r.s)
            /\ op' = Call("addBufFile", bufFile, r.ret, HadBefore)
            /\ session' = SessionAdded(Cur, Cur', {bufFile})

NestedNext ==
    \/ HistSetZipFile
    \/ HistCloseArchive
    \/ HistAddMarker
    \/ ExtractAll

SpecNested == Init /\ [][NestedNext]_vars

----------------------------------------------------------------------------
(* Archives in memory, the output folder and the extraction of one entry *)

\* a folder marker, a file below it and a file of no bytes
MixedItems ==
    << Item(<<"d", "/">>, << >>), Item(<<"d", "/", "a">>, <<1>>), Item(<<"e">>, << >>) >>

\* the byte arrays a caller passes to setZipBuffer
Buffers == { ZipFile(MixedItems), PlainFile, PartialFile }

\* the files the paths name before the first call
BufferFiles == { ZipFile(TwinItems), AbsentFile }

\* the folders a caller passes to setOutputFolder
OutputFolders == { EmptyStr, <<"/", "o">> }

SetZipBuffer ==
    \E bufferedZip \in Buffers :
        LET r == setZipBuffer(Cur, bufferedZip)
        IN  /\ Commit(r.s)
            /\ op' = Call("setZipBuffer", << >>, r.ret, {})
            /\ UNCHANGED session

SetOutputFolder ==
    \E outputFolder \in OutputFolders :
        /\ Commit(setOutputFolder(Cur, outputFolder))
        /\ op' = Call("setOutputFolder", <<outputFolder>>, TRUE, {})
        /\ UNCHANGED session

ExtractIndex ==
    \E index \in IndexArgs(Cur) :
        LET r == extractIndex(Cur, disk, index)
        IN  /\ disk' = r.disk
            /\ op' = Call("extractIndex", <<index>>, r.ret, {})
            /\ UNCHANGED <<object, session>>

ExtractToBuf ==
    /\ op' = Call("extractToBuf", << >>, extractToBuf(Cur), {})
    /\ UNCHANGED <<object, disk, session>>

BufferInit ==
    /\ m_archive = nullptr
    /\ m_zip_path = EmptyStr
    /\ m_output_folder = EmptyStr
    /\ m_zip_entries = EmptyMap
    /\ allocated = 0
    /\ \E f \in BufferFiles : fs = (P1 :> f) @@ (P2 :> DirNode)
    /\ disk = EmptyDisk
    /\ op = Call("new", << >>, TRUE, {})
    /\ session = NoSession

BufferNext ==
    \/ SetZipFile
    \/ SetZipBuffer
    \/ CloseArchive
    \/ SetOutputFolder
    \/ ExtractIndex
    \/ ExtractToBuf

SpecBuffer == BufferInit /\ [][BufferNext]_vars

----------------------------------------------------------------------------
(* The probe, on byte arrays and on files *)

\* byte arrays of the magic bytes and another byte, in any order
ProbeBytes == UNION {[1..n -> {"P", "K", "h"}] : n \in 0..MaxBytes}

\* files of these bytes, with a central directory at the end or without
ProbeFiles ==
    {AbsentFile}
    \cup {[kind |-> "file", head |-> b, zip |-> z, items |-> << >>] :
              b \in ProbeBytes, z \in BOOLEAN}

ProbeInit ==
    /\ m_archive = nullptr
    /\ m_zip_path = EmptyStr
    /\ m_output_folder = EmptyStr
    /\ m_zip_entries = EmptyMap
    /\ allocated = 0
    /\ \E f \in ProbeFiles : fs = (P1 :> f) @@ (P2 :> DirNode)
    /\ disk = EmptyDisk
    /\ op = Call("new", << >>, TRUE, {})
    /\ session = NoSession

IsArchive ==
    \E data \in ProbeBytes :
        /\ op' = Call("isArchive", <<data>>, isArchive(data), {})
        /\ UNCHANGED <<object, disk, session>>

IsZipFile ==
    \E filePath \in ZipPaths :
        /\ op' = Call("isZipFile", <<filePath>>, isZipFile(fs, filePath), {})
        /\ UNCHANGED <<object, disk, session>>

ProbeNext ==
    \/ IsArchive
    \/ IsZipFile

SpecProbe == ProbeInit /\ [][ProbeNext]_vars

----------------------------------------------------------------------------
(* joinPath, on the paths a caller can pass *)

MaxPathLen == 3

\* paths of a letter and the two separators, in any order
PathStrings == UNION {[1..n -> {"a", "/", "\\"}] : n \in 0..MaxPathLen}

JoinInit ==
    /\ m_archive = nullptr
    /\ m_zip_path = EmptyStr
    /\ m_output_folder = EmptyStr
    /\ m_zip_entries = EmptyMap
    /\ allocated = 0
    /\ fs = (P1 :> AbsentFile) @@ (P2 :> DirNode)
    /\ disk = EmptyDisk
    /\ \E abs_path \in PathStrings, rel_path \in PathStrings :
           op = Call("new", <<abs_path, rel_path>>, TRUE, {})
    /\ session = NoSession

\* the function applied to the two paths drawn
JoinPath ==
    /\ op.kind = "new"
    /\ op' = Call("joinPath", op.arg, joinPath(op.arg[1], op.arg[2]), {})
    /\ UNCHANGED <<object, disk, session>>

JoinPathTools ==
    /\ op.kind = "new"
    /\ op' = Call("joinPath_tools", op.arg, joinPath_tools(op.arg[1], op.arg[2]), {})
    /\ UNCHANGED <<object, disk, session>>

JoinNext ==
    \/ JoinPath
    \/ JoinPathTools

SpecJoin == JoinInit /\ [][JoinNext]_vars

----------------------------------------------------------------------------
(* The claims *)

\* the file setZipFile finds at a path: the one there once the session
\* that was open has been closed
Target(zipPath) == FileAt(closeArchive(Cur).fs, zipPath)

\* a file that passes the probe and opens as an archive
IsContainer(file) == file.kind = "file" /\ isArchive(file.head) /\ file.zip

IsAdd(call) == call.kind \in {"addBufFile", "addBufList", "addPath", "addPathEntry"}

\* a path add of one file of the filesystem
IsFileAdd(call) ==
    /\ call.kind \in {"addPath", "addPathEntry"}
    /\ SrcExists(call.arg[1])
    /\ SrcFS[call.arg[1]].kind = "file"

\* C1: a buffered item with a file name that a writing session added comes
\* back byte for byte: once the session is closed with closeArchive and its
\* path opened again with ModeRead, extractData(findIndex(name)) equals the
\* bytes the item was given with.
C1_RoundTrip ==
    (/\ op.kind = "setZipFile"
     /\ op.arg = <<session.path, ModeRead>>
     /\ session.ended = "closeArchive")
    => \A b \in session.added :
           isFileName(b.name)
           => BytesEqual(extractData(Cur, findIndex(Cur, b.name)), Bytes(b.data))

\* C2: in a writing session, adding one file under a name the directory
\* does not hold returns true and the count grows by exactly one; adding it
\* under a name the directory holds returns false and changes neither the
\* count, nor the directory, nor the items written.
C2_IdempotentReject ==
    [][ (IsFileAdd(op') /\ isModeWriting(Cur) /\ op'.arg[2] # EmptyStr)
        => IF op'.arg[2] \in DOMAIN m_zip_entries
           THEN /\ ~op'.ret
                /\ count(Cur') = count(Cur)
                /\ m_zip_entries' = m_zip_entries
                /\ m_archive' = m_archive
           ELSE /\ op'.ret
                /\ count(Cur') = count(Cur) + 1
                /\ DOMAIN m_zip_entries' = DOMAIN m_zip_entries \cup {op'.arg[2]}
                /\ \A n \in DOMAIN m_zip_entries : m_zip_entries'[n] = m_zip_entries[n]
      ]_vars

C2_Witness ==
    /\ IsFileAdd(op)
    /\ ~op.ret
    /\ isModeWriting(Cur)
    /\ op.arg[2] \in DOMAIN m_zip_entries
    /\ count(Cur) = 1

\* C3: setZipFile with ModeAuto ends in writing mode when nothing is at the
\* path, in reading mode when a container is, and returns false with no
\* archive set when something else is.
C3_ModeAuto ==
    [][ (op'.kind = "setZipFile" /\ op'.arg[2] = ModeAuto)
        => LET target == Target(op'.arg[1])
           IN  /\ target.kind = "absent" => op'.ret /\ isModeWriting(Cur')
               /\ IsContainer(target) => op'.ret /\ isModeReading(Cur')
               /\ (target.kind # "absent" /\ ~IsContainer(target))
                      => ~op'.ret /\ m_archive' = nullptr
      ]_vars

\* C4: setZipFile with ModeWrite ends in writing mode whether the path names
\* nothing, a file that is no container, or a container.
C4_ModeWrite ==
    [][ (/\ op'.kind = "setZipFile"
         /\ op'.arg[2] = ModeWrite
         /\ Target(op'.arg[1]).kind \in {"absent", "file"})
        => op'.ret /\ isModeWriting(Cur')
      ]_vars

C6_ModeRead ==
    [][ (op'.kind = "setZipFile" /\ op'.arg[2] = ModeRead)
        => LET probed == /\ exists(closeArchive(Cur).fs, op'.arg[1])
                         /\ isArchive(Target(op'.arg[1]).head)
           IN  /\ isModeReading(Cur') => probed
               /\ ~probed => ~op'.ret /\ ~isModeReading(Cur')
               /\ op'.ret => isModeReading(Cur')
               /\ ~isModeWriting(Cur')
      ]_vars

C6_Witness ==
    /\ op.kind = "setZipFile"
    /\ op.arg[2] = ModeRead
    /\ ~op.ret
    /\ fs[op.arg[1]] = StubZipFile

\* C7: opening a path that names nothing with ModeAuto gives a writing
\* session; once one file has been added to it and it has been closed,
\* opening the path with ModeAuto again gives a reading session of count 1.
C7_ScenarioC ==
    [][ /\ (/\ op'.kind = "setZipFile"
            /\ op'.arg[2] = ModeAuto
            /\ Target(op'.arg[1]).kind = "absent")
           => op'.ret /\ isModeWriting(Cur')
        /\ (/\ op'.kind = "setZipFile"
            /\ op'.arg = <<session.path, ModeAuto>>
            /\ session.viaAuto
            /\ session.ended = "closeArchive"
            /\ session.n = 1)
           => op'.ret /\ isModeReading(Cur') /\ count(Cur') = 1
      ]_vars

\* C8: closeArchive on an open session leaves no archive set, an empty path,
\* an empty directory and an empty output folder, and has written the
\* central directory of the items if the session was writing; no other file
\* changes, and on a closed session nothing changes at all.
C8_CloseArchive ==
    [][ op'.kind = "closeArchive"
        => IF m_archive = nullptr
           THEN Cur' = Cur
           ELSE /\ m_archive' = nullptr
                /\ m_zip_path' = EmptyStr
                /\ m_zip_entries' = EmptyMap
                /\ m_output_folder' = EmptyStr
                /\ \A p \in DOMAIN fs :
                       fs'[p] = IF isModeWriting(Cur) /\ p = m_archive.file
                                THEN ZipFile(m_archive.items)
                                ELSE fs[p]
      ]_vars

C8_Witness ==
    /\ op.kind = "closeArchive"
    /\ op.arg[1] = MZ_ZIP_MODE_WRITING
    /\ m_archive = nullptr
    /\ \E p \in DOMAIN fs : IsContainer(fs[p]) /\ Len(fs[p].items) = MaxEntries

\* C9: setZipFile on a session that is writing finalizes what was written:
\* called with the path of the session and ModeRead, it gives a reading
\* session whose count() is the number of entries the adds reported.
C9_ReopenFinalizes ==
    [][ (/\ isModeWriting(Cur)
         /\ op'.kind = "setZipFile"
         /\ op'.arg = <<m_zip_path, ModeRead>>)
        => op'.ret /\ isModeReading(Cur') /\ count(Cur') = session.n
      ]_vars

\* C10: every add called on a session that is closed or reading returns
\* false and changes neither the mode, nor the directory, nor any file.
C10_AddNeedsWriting ==
    [][ (IsAdd(op') /\ ~isModeWriting(Cur))
        => ~op'.ret /\ Cur' = Cur
      ]_vars

\* the indexes a caller asks for: the ones the archive has, and one on
\* either side of them
Indexes(S) == -1 .. (count(S) + 1)

\* C11: on a session that is writing or closed, extractData(index),
\* extractToBuf(index) and extractToBuf() give the empty result (a null
\* array, a BufFile with no name, an empty map), whatever the index.
C11_BufferNeedsReading ==
    ~isModeReading(Cur)
    => /\ extractToBuf(Cur) = EmptyMap
       /\ \A index \in Indexes(Cur) :
              /\ extractData(Cur, index).null
              /\ extractToBuf_Index(Cur, index).name = EmptyStr
              /\ extractToBuf_Index(Cur, index).data.null

\* the item a buffered item of a list is written as
ListItem(bufList, key) ==
    [name |-> key, data |-> IF isFolderName(key) THEN << >> ELSE bufList[key]]

C13_BufListMixed ==
    [][ (/\ op'.kind = "addBufList"
         /\ isModeWriting(Cur)
         /\ DOMAIN op'.arg # {}
         /\ \A k \in DOMAIN op'.arg : k # EmptyStr /\ mz_valid_name(k))
        => IF DOMAIN op'.arg \subseteq DOMAIN m_zip_entries
           THEN ~op'.ret
           ELSE /\ op'.ret
                /\ DOMAIN m_zip_entries' = DOMAIN m_zip_entries \cup DOMAIN op'.arg
      ]_vars

\* a path add of a folder of the filesystem
IsFolderAdd(call) ==
    /\ call.kind \in {"addPath", "addPathEntry"}
    /\ SrcExists(call.arg[1])
    /\ SrcFS[call.arg[1]].kind = "dir"

\* C18: in a writing session the add of a folder returns true exactly when
\* the call added at least one entry, the marker or anything below it: true
\* when the directory held the marker and something below it is new, false
\* when the directory held the marker and everything below it.
C18_FolderAddAnyNew ==
    [][ (IsFolderAdd(op') /\ isModeWriting(Cur))
        => /\ op'.ret <=> count(Cur') > count(Cur)
           /\ op'.ret <=> DOMAIN m_zip_entries' # DOMAIN m_zip_entries
           /\ DOMAIN m_zip_entries \subseteq DOMAIN m_zip_entries'
      ]_vars

C18_Witness ==
    /\ IsFolderAdd(op)
    /\ ~op.ret
    /\ isModeWriting(Cur)
    /\ op.arg[2] = <<"d">>
    /\ DOMAIN m_zip_entries = {<<"d", "/">>, <<"d", "/", "a">>}

\* the directory a reader builds of the items a writer holds: each name
\* with its place, from 0, in the order the items were added
Ordinals(items) ==
    [n \in ItemNames(items) |->
        CHOOSE i \in 0..(Len(items) - 1) : items[i + 1].name = n]

\* C19: when a writing session is followed by an open of its path that
\* ends in reading mode, contents() maps each name the session added to
\* its place, from 0, in the order the adds succeeded, and holds no other
\* name.
C19_ContentsOrdinals ==
    [][ (/\ isModeWriting(Cur)
         /\ op'.kind = "setZipFile"
         /\ op'.arg[1] = m_zip_path
         /\ op'.ret
         /\ isModeReading(Cur'))
        => m_zip_entries' = Ordinals(m_archive.items)
      ]_vars

\* the names a caller looks up
FindNames ==
    { <<"a">>, <<"d">>, <<"d", "/">>, <<"d", "/", "a">>, <<"s">>, EmptyStr }

\* the names of the directory that are file names with a given last component
FilesNamed(S, name_) ==
    {k \in DOMAIN S.zip_entries : isFileName(k) /\ fileName(k) = name_}

\* C14: findIndex(name) gives the index of the entry whose full name is
\* name when there is one; if there is none and name has no separator, it
\* gives the index of a file entry whose last path component is name, never
\* that of a folder marker; if there is none either, or name has a
\* separator, it gives -1.
C14_FindIndex ==
    \A name_ \in FindNames :
        LET index == findIndex(Cur, name_)
        IN  IF name_ \in DOMAIN m_zip_entries
            THEN name(Cur, index) = name_
            ELSE IF ~contains(name_, s_sep) /\ FilesNamed(Cur, name_) # {}
                 THEN /\ name(Cur, index) \in FilesNamed(Cur, name_)
                      /\ isFile(Cur, index)
                 ELSE index = -1

\* C15: when the directory has no entry of the name asked for and several
\* file entries whose last path component is that name, findIndex gives
\* the one added first: the smallest index among them.
C15_FirstInserted ==
    \A name_ \in FindNames :
        (/\ name_ \notin DOMAIN m_zip_entries
         /\ ~contains(name_, s_sep)
         /\ Cardinality(FilesNamed(Cur, name_)) >= 2)
        => \A k \in FilesNamed(Cur, name_) : findIndex(Cur, name_) <= m_zip_entries[k]

\* a place on the disk and the folders above it
Above(parts) == {SubSeq(parts, 1, j) : j \in 1..Len(parts)}

\* the entry at an index is on the disk at a place: its folder, or a file
\* with its bytes
InPlace(S, files, index, parts) ==
    IF isFolder(S, index) THEN kindAt(files, parts) = "dir"
    ELSE /\ parts \in DOMAIN files
         /\ files[parts] = DiskFile(S.archive.items[index + 1].data)

\* something on the disk keeps the entry from being put at a place: a file
\* where a folder has to be, or a folder where the file has to be
InTheWay(S, files, index, parts) ==
    \/ \E a \in Above(parts) \ {parts} : kindAt(files, a) = "file"
    \/ IF isFolder(S, index) THEN kindAt(files, parts) = "file"
                              ELSE kindAt(files, parts) = "dir"

\* the disk is the same at every place outside a set of places, and
\* nothing on it is gone
SameOutside(places) ==
    /\ DOMAIN disk \subseteq DOMAIN disk'
    /\ \A p \in DOMAIN disk' \ places : p \in DOMAIN disk /\ disk'[p] = disk[p]

\* where extractAll puts the entry at an index
PlaceOf(S, index) == Components(S.output_folder) \o Components(name(S, index))

\* C16: extractFolder(i, out) on a reading session, i the index of a folder
\* entry, puts the entries whose name starts with the name of entry i on
\* the disk, each at out followed by its name without that prefix, and
\* changes nothing on the disk but these places and the folders above them;
\* when i is not the index of a folder entry it returns false and changes
\* nothing.
C16_ExtractFolder ==
    [][ op'.kind = "extractFolder"
        => LET index == op'.arg[1]
               folder == name(Cur, index)
               members == {k \in DOMAIN m_zip_entries : startsWith(k, folder)}
               Place(k) == Components(op'.arg[2])
                           \o Components(SubSeq(k, Len(folder) + 1, Len(k)))
           IN  IF ~isFolder(Cur, index) \/ ~isModeReading(Cur)
               THEN ~op'.ret /\ disk' = disk
               ELSE /\ SameOutside(UNION {Above(Place(k)) : k \in members})
                    /\ \A k \in members :
                           \/ InPlace(Cur, disk', m_zip_entries[k], Place(k))
                           \/ InTheWay(Cur, disk', m_zip_entries[k], Place(k))
                    /\ op'.ret
                          => \E k \in members :
                                 InPlace(Cur, disk', m_zip_entries[k], Place(k))
                    /\ (\A k \in members :
                            ~InTheWay(Cur, disk', m_zip_entries[k], Place(k)))
                          => op'.ret
      ]_vars

C16_Witness ==
    /\ op.kind = "extractFolder"
    /\ op.ret
    /\ isModeReading(Cur)
    /\ m_archive.items = TreeItems
    /\ name(Cur, op.arg[1]) = <<"d", "/", "s", "/">>
    /\ <<<<"o">>, <<"a">>>> \in DOMAIN disk
    /\ disk[<<<<"o">>, <<"a">>>>] = DiskFile(<<2>>)
    /\ <<<<"o">>, <<"s">>>> \notin DOMAIN disk
    /\ <<<<"o">>, <<"c">>>> \notin DOMAIN disk

\* C20: extractAll returns false and changes nothing unless the session is
\* reading and has entries; otherwise it puts the entries on the disk in
\* the order of their indexes up to the first one that cannot be put
\* there, returns false if there is one and true if not; the entries
\* behind that one are not extracted and those before it stay on the disk.
C20_ExtractAll ==
    [][ op'.kind = "extractAll"
        => IF ~isModeReading(Cur) \/ count(Cur) = 0
           THEN ~op'.ret /\ disk' = disk
           ELSE \E k \in 0..count(Cur) :
                   /\ op'.ret = (k = count(Cur))
                   /\ \A i \in 0..(k - 1) : InPlace(Cur, disk', i, PlaceOf(Cur, i))
                   /\ k < count(Cur)
                         => \/ m_output_folder = EmptyStr
                            \/ name(Cur, k) = EmptyStr
                            \/ InTheWay(Cur, disk', k, PlaceOf(Cur, k))
                   /\ SameOutside(UNION {Above(PlaceOf(Cur, i)) :
                                            i \in 0..(IF k < count(Cur) THEN k ELSE k - 1)})
      ]_vars

C20_Witness ==
    /\ op.kind = "extractAll"
    /\ ~op.ret
    /\ isModeReading(Cur)
    /\ m_archive.items = ClashItems
    /\ kindAt(disk, <<<<"a">>>>) = "file"
    /\ kindAt(disk, <<<<"c">>>>) = "absent"

\* the files and the folders below a folder of the filesystem
FilesBelow(sourcePath) ==
    {p \in DOMAIN SrcFS : /\ startsWith(p, sourcePath \o <<s_sep>>)
                           /\ SrcFS[p].kind = "file"}

FoldersBelow(sourcePath) ==
    {p \in DOMAIN SrcFS : /\ startsWith(p, sourcePath \o <<s_sep>>)
                           /\ SrcFS[p].kind = "dir"}

\* the add of a folder to a writing session that holds nothing
IsFirstFolderAdd ==
    /\ IsFolderAdd(op')
    /\ op'.arg[2] # EmptyStr
    /\ isModeWriting(Cur)
    /\ count(Cur) = 0

\* the names the entries of a folder added under a name are to have
TreeNames(sourcePath, entryName) ==
    LET root == IF endsWith(entryName, s_sep) THEN entryName
                ELSE entryName \o <<s_sep>>
        Rel(p) == SubSeq(p, Len(sourcePath) + 2, Len(p))
    IN  {root}
        \cup {root \o Rel(p) : p \in FilesBelow(sourcePath)}
        \cup {root \o Rel(p) \o <<s_sep>> : p \in FoldersBelow(sourcePath)}

\* C17 as stated: a folder with N files and M folders, the folder itself
\* counted among the M, added to a writing session that holds nothing,
\* gives N + M + 1 entries.
C17_TreeAddCount ==
    [][ IsFirstFolderAdd
        => count(Cur') = Cardinality(FilesBelow(op'.arg[1]))
                         + (Cardinality(FoldersBelow(op'.arg[1])) + 1) + 1
      ]_vars

\* C17 amended: a folder with N files and M folders below it, the folder
\* itself not counted, added to a writing session that holds nothing, gives
\* N + M + 1 entries: one for the folder itself, one for every folder below
\* it, each with a name ending in the separator, and one for every file.
C17_TreeAddCountBelow ==
    [][ IsFirstFolderAdd
        => /\ op'.ret
           /\ count(Cur') = Cardinality(FilesBelow(op'.arg[1]))
                            + Cardinality(FoldersBelow(op'.arg[1])) + 1
           /\ ItemNames(m_archive'.items) = TreeNames(op'.arg[1], op'.arg[2])
           /\ Cardinality({i \in 0..(count(Cur') - 1) : isFolder(Cur', i)})
                  = Cardinality(FoldersBelow(op'.arg[1])) + 1
           /\ \A i \in 0..(count(Cur') - 1) :
                  isFolder(Cur', i) <=> m_archive'.items[i + 1].data = << >>
      ]_vars

C17_Witness ==
    /\ IsFolderAdd(op)
    /\ op.ret
    /\ op.arg[1] = TreeDir
    /\ isModeWriting(Cur)
    /\ count(Cur) = 5
    /\ ItemNames(m_archive.items) = TreeNames(TreeDir, <<"t">>)

\* the places on the disk of the folders the markers name, below a folder
MarkerPlaces(outputFolder) ==
    {Components(outputFolder) \o Components(b.name) : b \in NestedMarkers}

\* C21: a writing session that adds the markers of a root folder, of a
\* folder in it and of a folder in that one, and nothing else, is closed and
\* its path opened for reading; extractAll then returns true, the three
\* folders are on the disk below the output folder, and nothing else on the
\* disk is new or changed: no file is created.
C21_NestedFolders ==
    [][ (/\ op'.kind = "extractAll"
         /\ op.kind = "setZipFile"
         /\ op.arg = <<session.path, ModeRead>>
         /\ op.ret
         /\ session.ended = "closeArchive"
         /\ session.added = NestedMarkers
         /\ session.n = 3)
        => /\ op'.ret
           /\ count(Cur) = 3
           /\ \A i \in 0..(count(Cur) - 1) : isFolder(Cur, i)
           /\ \A place \in MarkerPlaces(m_output_folder) : kindAt(disk', place) = "dir"
           /\ \A place \in DOMAIN disk' \ DOMAIN disk : disk'[place] = DiskDir
           /\ SameOutside(MarkerPlaces(m_output_folder))
      ]_vars

\* a session whose archive was read from memory
FromBuffer(S) == isModeReading(S) /\ S.archive.file = EmptyStr

\* C22: extractIndex(index) returns false and changes nothing on the disk
\* nor in any file when the index is -1 or not one of 0..count-1, and when
\* no output folder is set; setZipBuffer sets none, so that on a session
\* opened from memory every extractIndex fails until setOutputFolder gives
\* one.
C22_ExtractNeedsIndexAndFolder ==
    [][ /\ op'.kind = "extractIndex"
           => /\ fs' = fs
              /\ (\/ op'.arg[1] < 0
                  \/ op'.arg[1] >= count(Cur)
                  \/ m_output_folder = EmptyStr)
                 => ~op'.ret /\ disk' = disk
        /\ (op'.kind = "setZipBuffer" /\ op'.ret)
           => /\ FromBuffer(Cur')
              /\ m_output_folder' = IF m_archive = nullptr THEN m_output_folder
                                                            ELSE EmptyStr
      ]_vars

C22_Witness ==
    /\ op.kind = "extractIndex"
    /\ ~op.ret
    /\ op.arg[1] = 0
    /\ FromBuffer(Cur)
    /\ count(Cur) = 3
    /\ m_output_folder = EmptyStr
    /\ kindAt(disk, <<<<"o">>, <<"d">>, <<"a">>>>) = "file"

\* the indexes of the entries of a session
EntryIndexes(S) == 0..(count(S) - 1)

C24_BufListAllEntries ==
    [][ (op'.kind = "extractToBuf" /\ isModeReading(Cur))
        => LET res == op'.ret
           IN  /\ DOMAIN res = {name(Cur, i) : i \in EntryIndexes(Cur)}
               /\ \A i \in EntryIndexes(Cur) :
                      isFolder(Cur, i)
                      => name(Cur, i) \in DOMAIN res /\ res[name(Cur, i)].null
      ]_vars

\* C25: in an open session name(index) is the empty string for every index
\* that is negative or not below count(), and isFile(index) and
\* isFolder(index) are then both false; for every index from 0 to count()-1
\* exactly one of isFile(index) and isFolder(index) is true.
C25_NameAndKind ==
    m_archive # nullptr
    => \A index \in {-2} \cup Indexes(Cur) :
           IF index \in EntryIndexes(Cur)
           THEN isFile(Cur, index) # isFolder(Cur, index)
           ELSE /\ name(Cur, index) = EmptyStr
                /\ ~isFile(Cur, index)
                /\ ~isFolder(Cur, index)

\* C25, for the entries that have a name: as above for the indexes that are
\* negative or not below count(); for every index from 0 to count()-1 whose
\* entry has a name that is not empty exactly one of isFile(index) and
\* isFolder(index) is true, and for one whose entry has the empty name
\* both are false.
C25_NameAndKindNamed ==
    m_archive # nullptr
    => \A index \in {-2} \cup Indexes(Cur) :
           IF index \in EntryIndexes(Cur) /\ name(Cur, index) # EmptyStr
           THEN isFile(Cur, index) # isFolder(Cur, index)
           ELSE /\ name(Cur, index) = EmptyStr
                /\ ~isFile(Cur, index)
                /\ ~isFolder(Cur, index)

C25_Witness ==
    /\ isModeWriting(Cur)
    /\ count(Cur) = 2
    /\ isFolder(Cur, 0) /\ ~isFile(Cur, 0)
    /\ isFile(Cur, 1) /\ ~isFolder(Cur, 1)
    /\ name(Cur, 2) = EmptyStr /\ name(Cur, -1) = EmptyStr

\* the bytes are two at least and the first two are "P" and "K"
HasMagic(bytes) == Len(bytes) >= 2 /\ bytes[1] = "P" /\ bytes[2] = "K"

\* two byte arrays of two bytes at least with the same first two bytes
SameStart(x, y) ==
    Len(x) >= 2 /\ Len(y) >= 2 /\ SubSeq(x, 1, 2) = SubSeq(y, 1, 2)

\* C26: isArchive(data) is true exactly when data has two bytes at least
\* and the first two are "P" and "K", and isZipFile(path) is true exactly
\* when the file at the path has; two byte arrays, or two files, with the
\* same first two bytes are classified alike, whatever follows the two
\* bytes and whether the file can be read as an archive or not.
C26_ProbeMagicOnly ==
    /\ op.kind = "isArchive"
          => /\ op.ret <=> HasMagic(op.arg[1])
             /\ \A y \in ProbeBytes : SameStart(op.arg[1], y) => isArchive(y) = op.ret
    /\ (op.kind = "isZipFile" /\ fs[op.arg[1]].kind = "file")
          => /\ op.ret <=> HasMagic(fs[op.arg[1]].head)
             /\ \A y \in ProbeBytes :
                    SameStart(fs[op.arg[1]].head, y) => isArchive(y) = op.ret
             /\ \A g \in ProbeFiles :
                    (g.kind = "file" /\ SameStart(fs[op.arg[1]].head, g.head))
                    => isZipFile((P1 :> g), P1) = op.ret

C26_Witness ==
    /\ op.kind = "isZipFile"
    /\ op.ret
    /\ fs[op.arg[1]].head = <<"P", "K", "h">>
    /\ ~fs[op.arg[1]].zip

\* the entries of a container have names that are not empty and differ
DistinctNames(items) ==
    /\ \A i \in 1..Len(items) : items[i].name # EmptyStr
    /\ \A i, j \in 1..Len(items) : items[i].name = items[j].name => i = j

\* C27 as stated: in every state of an open session the directory has as
\* many names as the container has entries.
C27_DirectoryMirrorsCount ==
    m_archive # nullptr => MapSize(m_zip_entries) = count(Cur)

\* C27 amended: in every state of an open session whose container gives
\* every entry a name of its own, as every container a session has written
\* does, the directory has as many names as the container has entries, and
\* they are the names of the entries; the container of a writing session is
\* one of these, each add that succeeds grows both by the number of entries
\* it appended, one for an add of one item (none for the add of a list of
\* no items, which returns true), and each add that fails or is rejected
\* without appending leaves both as they were.
C27_DirectoryMirrorsDistinct ==
    /\ []( (m_archive # nullptr /\ DistinctNames(m_archive.items))
           => /\ MapSize(m_zip_entries) = count(Cur)
              /\ DOMAIN m_zip_entries = ItemNames(m_archive.items) )
    /\ [](isModeWriting(Cur) => DistinctNames(m_archive.items))
    /\ [][ (IsAdd(op') /\ isModeWriting(Cur))
           => /\ count(Cur') - count(Cur)
                    = MapSize(m_zip_entries') - MapSize(m_zip_entries)
              /\ count(Cur') >= count(Cur)
              /\ op'.kind = "addBufFile"
                    => count(Cur') = count(Cur) + (IF op'.ret THEN 1 ELSE 0)
              /\ IsFileAdd(op')
                    => count(Cur') = count(Cur) + (IF op'.ret THEN 1 ELSE 0)
              /\ (op'.ret /\ op'.arg # EmptyMap) => count(Cur') > count(Cur)
         ]_vars

C27_Witness ==
    /\ op.kind = "addBufFile"
    /\ ~op.ret
    /\ op.arg.name \in DOMAIN m_zip_entries
    /\ isModeWriting(Cur)
    /\ count(Cur) = 2
    /\ MapSize(m_zip_entries) = 2

\* C28: in a writing session every name of the directory, whichever add
\* put it there, is mapped to the size the directory had when the name was
\* put in, which is the index of its entry in the container, and is
\* mapped to it for as long as the session lasts.
C28_IndexIsInsertionSize ==
    /\ [](isModeWriting(Cur)
            => \A k \in DOMAIN m_zip_entries : name(Cur, m_zip_entries[k]) = k)
    /\ [][ (IsAdd(op') /\ isModeWriting(Cur))
           => /\ \A k \in DOMAIN m_zip_entries :
                     k \in DOMAIN m_zip_entries' /\ m_zip_entries'[k] = m_zip_entries[k]
              /\ \A k \in DOMAIN m_zip_entries' \ DOMAIN m_zip_entries :
                     /\ m_zip_entries'[k] >= MapSize(m_zip_entries)
                     /\ m_zip_entries'[k] < MapSize(m_zip_entries')
         ]_vars

\* name is the name of something below the folder a marker names
Below(marker, name_) == Len(name_) > Len(marker) /\ startsWith(name_, marker)

\* the names of the folders a name is below, from the root on
FoldersOf(name_) ==
    {SubSeq(name_, 1, i) : i \in {j \in 1..(Len(name_) - 1) : name_[j] = s_sep}}

C30_OneHandle ==
    /\ [](allocated = IF m_archive = nullptr THEN 0 ELSE 1)
    /\ [][ op'.kind \in {"setZipFile", "setZipBuffer"}
           => /\ op'.ret => (m_archive' # nullptr /\ allocated' = 1)
              /\ (~op'.ret /\ op'.kind = "setZipFile")
                    => (m_archive' = nullptr /\ allocated' = 0)
              /\ (~op'.ret /\ op'.kind = "setZipBuffer")
                    => (m_archive' = m_archive /\ allocated' = allocated)
         ]_vars

C30_Witness ==
    /\ op.kind = "setZipBuffer"
    /\ ~op.ret
    /\ FromBuffer(Cur)
    /\ allocated = 1

GivenNames(call) ==
    CASE call.kind = "addBufFile" -> {call.arg.name}
      [] call.kind = "addBufList" -> DOMAIN call.arg
      [] call.kind \in {"addPath", "addPathEntry"} -> {call.arg[2]}
      [] OTHER -> {}

\* C32: the empty string is never a key of the directory; an add call that
\* gives the empty string as an entry name returns false and leaves the
\* session, the archive and the files as they were; and the directory a
\* session has after it opened a file for reading holds the names of the
\* entries of the file that are not empty, and only them.
C32_NoEmptyName ==
    /\ [](EmptyStr \notin DOMAIN m_zip_entries)
    /\ [][ /\ (IsAdd(op') /\ EmptyStr \in GivenNames(op'))
              => (~op'.ret /\ Cur' = Cur)
           /\ (op'.kind = "setZipFile" /\ op'.ret /\ isModeReading(Cur'))
              => DOMAIN m_zip_entries' = ItemNames(m_archive'.items) \ {EmptyStr}
         ]_vars

C32_Witness ==
    /\ op.kind = "setZipFile"
    /\ op.ret
    /\ isModeReading(Cur)
    /\ count(Cur) = 2
    /\ name(Cur, 0) = EmptyStr
    /\ m_zip_entries = MapPut(EmptyMap, <<"a">>, 1)

RECURSIVE chopSeps(_)
\* a path without the separators it ends with
chopSeps(path) ==
    IF Len(path) > 0 /\ isSep(path[Len(path)])
    THEN chopSeps(SubSeq(path, 1, Len(path) - 1))
    ELSE path

RECURSIVE dropSeps(_)
\* a path without the separators it starts with
dropSeps(path) ==
    IF Len(path) > 0 /\ isSep(path[1]) THEN dropSeps(Tail(path)) ELSE path

\* the path ends with a separator, the path starts with one
EndsSep(path) == Len(path) > 0 /\ isSep(path[Len(path)])

StartsSep(path) == Len(path) > 0 /\ isSep(path[1])

\* what joinPath does in the three cases of the two tests
JoinCases(base, relative, joined) ==
    /\ (~EndsSep(base) /\ ~StartsSep(relative))
       => joined = base \o <<s_sep>> \o relative
    /\ (EndsSep(base) # StartsSep(relative))
       => joined = base \o relative
    /\ (EndsSep(base) /\ StartsSep(relative))
       => joined = SubSeq(base, 1, Len(base) - 1) \o relative

\* one separator, and no more, between what base is before its last
\* separators and what relative is after its first ones
OneSeparator(base, relative, joined) ==
    \E ch \in {"/", "\\"} :
        joined = chopSeps(base) \o <<ch>> \o dropSeps(relative)

\* C33: joinPath(base, relative) is base and relative with exactly one
\* separator between them, for every base and every relative: one is put in
\* when neither supplies it, the one there is kept when one of them
\* supplies it, and one is dropped when base ends with one and relative
\* starts with one.
C33_JoinOneSeparator ==
    op.kind = "joinPath"
    => /\ JoinCases(op.arg[1], op.arg[2], op.ret)
       /\ OneSeparator(op.arg[1], op.arg[2], op.ret)

\* C33, for the paths that have one separator at most where they are
\* joined: the three cases hold for every base and every relative, and they
\* leave exactly one separator between the two when base does not end with
\* two separators and relative does not start with two; the joinPath of
\* tools.cpp looks at the end of base only.
C33_JoinOneSeparatorEach ==
    /\ op.kind = "joinPath"
       => /\ JoinCases(op.arg[1], op.arg[2], op.ret)
          /\ (/\ Len(op.arg[1]) - Len(chopSeps(op.arg[1])) <= 1
              /\ Len(op.arg[2]) - Len(dropSeps(op.arg[2])) <= 1)
             => OneSeparator(op.arg[1], op.arg[2], op.ret)
    /\ op.kind = "joinPath_tools"
       => op.ret = IF EndsSep(op.arg[1])
                   THEN op.arg[1] \o op.arg[2]
                   ELSE op.arg[1] \o <<s_sep>> \o op.arg[2]

C33_Witness ==
    /\ op.kind = "joinPath"
    /\ op.arg = << <<"a", "\\">>, <<"/", "a">> >>
    /\ op.ret = <<"a", "/", "a">>

\* C34: after a setZipFile call that returns false, whatever made it fail,
\* no archive is set, the session is neither reading nor writing, the
\* directory and the path are empty and count() is 0; and if the session
\* was writing when the call was made, the file it wrote (one of the files
\* that are followed) has the central directory of the items that were
\* added.
C34_FailedOpenCloses ==
    [][ (op'.kind = "setZipFile" /\ ~op'.ret)
        => /\ m_archive' = nullptr
           /\ ~isModeReading(Cur') /\ ~isModeWriting(Cur')
           /\ m_zip_entries' = EmptyMap
           /\ m_zip_path' = EmptyStr
           /\ count(Cur') = 0
           /\ (isModeWriting(Cur) /\ m_archive.file \in DOMAIN fs)
              => fs'[m_archive.file] = ZipFile(m_archive.items)
      ]_vars

C34_Witness ==
    /\ op.kind = "setZipFile"
    /\ ~op.ret
    /\ op.arg = <<P2, ModeRead>>
    /\ m_archive = nullptr
    /\ m_zip_path = EmptyStr
    /\ m_zip_entries = EmptyMap
    /\ fs[P1] = ZipFile(<< [name |-> <<"a">>, data |-> <<1>>],
                          [name |-> <<"d", "/">>, data |-> << >>] >>)

\* C35: a setZipBuffer call that returns false, for bytes that do not pass
\* the probe or that do not open as an archive, changes nothing: the archive
\* that is set and its mode, the path, the output folder, the directory and
\* every file are what they were, and a writer has not been finalized.
C35_FailedBufferKeeps ==
    [][ (op'.kind = "setZipBuffer" /\ ~op'.ret)
        => /\ m_archive' = m_archive
           /\ zipMode(m_archive') = zipMode(m_archive)
           /\ m_zip_path' = m_zip_path
           /\ m_output_folder' = m_output_folder
           /\ m_zip_entries' = m_zip_entries
           /\ fs' = fs
      ]_vars

C35_Witness ==
    /\ op.kind = "setZipBuffer"
    /\ ~op.ret
    /\ isModeReading(Cur)
    /\ m_zip_path = P1
    /\ m_output_folder = <<"/", "o">>
    /\ DOMAIN m_zip_entries = {<<"d", "/", "a">>, <<"b", "/", "a">>}

\* C36: in every state, operator bool is false exactly when no archive is
\* set and the session is neither reading nor writing; when it is false the
\* directory is empty, count() is 0 and the path of the archive is empty;
\* and the session is never reading and writing at once.
C36_ClosedOrOpen ==
    /\ (/\ m_archive = nullptr
        /\ ~isModeReading(Cur)
        /\ ~isModeWriting(Cur)) <=> ~operator_bool(Cur)
    /\ ~operator_bool(Cur)
       => /\ m_zip_entries = EmptyMap
          /\ count(Cur) = 0
          /\ m_zip_path = EmptyStr
    /\ ~(isModeReading(Cur) /\ isModeWriting(Cur))

C36_Witness ==
    /\ op.kind = "closeArchive"
    /\ op.arg[1] = MZ_ZIP_MODE_READING
    /\ ~operator_bool(Cur)
    /\ ~isModeReading(Cur) /\ ~isModeWriting(Cur)
    /\ m_zip_entries = EmptyMap
    /\ count(Cur) = 0
    /\ m_zip_path = EmptyStr

\* no two of the items have one name
NoTwins(items) ==
    \A i, j \in 1..Len(items) : items[i].name = items[j].name => i = j

\* C37: the archive of a session that is writing never holds two entries of
\* one name, whatever adds were made, of a path, of a folder, of one
\* buffered item or of a list; and a file that a call has written holds no
\* two entries of one name.
C37_NoTwinsWritten ==
    /\ [](isModeWriting(Cur) => NoTwins(m_archive.items))
    /\ [][ \A p \in DOMAIN fs : fs'[p] # fs[p] => NoTwins(fs'[p].items) ]_vars

C37_Witness ==
    /\ op.kind = "addBufFile"
    /\ ~op.ret
    /\ op.arg.name = <<"d", "/">>
    /\ isModeWriting(Cur)
    /\ count(Cur) = 2
    /\ name(Cur, 0) = <<"d", "/">>
    /\ name(Cur, 1) = <<"d", "/", "a">>

====
